---- MODULE Spec2Model ----
(***************************************************************************)
(* Model of query_umls.py: the ticket authenticator (Authentication) and   *)
(* the search client (searchUMLS) with its three public operations,        *)
(* search_term, search_cui and get_df.                                     *)
(*                                                                         *)
(* One top-level call runs at a time (the program is sequential).  The     *)
(* identity gateway and the search/content service are the environment:    *)
(* what they will answer is fixed when a call starts (the upstream's page  *)
(* sequence, the per-identifier answers) or chosen when a ticket is asked  *)
(* for (the gateway's answer).                                             *)
(***************************************************************************)
EXTENDS Integers, Sequences, FiniteSets, TLC

VARIABLES
    op,              \* which public method is running: "none", "term", "cui", "df"
    pc,              \* position inside the running method
    calls,           \* number of top-level calls started so far
    n,               \* search_term: n = int(num_results)
    as_df,           \* the as_df argument
    pre,             \* search service: the first pages it will serve
    tail,            \* search service: the page it serves for ever after pre
    cui_lst,         \* search_cui: the identifiers
    answers,         \* content service: its answer to the i-th lookup
    json_data,       \* get_df called directly: its argument
    tgt,             \* local: the granting ticket
    service_ticket,  \* local: the service ticket
    page,            \* search_term local: page counter
    results,         \* local: accumulated records
    idx,             \* search_cui: position of the for loop in cui_lst
    ret,             \* the value returned to the caller
    log              \* history: the HTTP requests issued by the current call

vars == << op, pc, calls, n, as_df, pre, tail, cui_lst, answers, json_data,
           tgt, service_ticket, page, results, idx, ret, log >>

----------------------------------------------------------------------------
(* Bounds of the model *)

MaxN == 3          \* num_results ranges over 0..MaxN
MaxPrefix == 1     \* the upstream's page sequence: up to MaxPrefix pages, then tail
MaxCuis == 2       \* cui_lst has at most MaxCuis identifiers
MaxRecs == 2       \* get_df called directly: at most MaxRecs records
MaxCalls == 2      \* top-level calls in one behaviour

\* The page loop of search_term has no bound of its own.  Every page that
\* does not end the loop adds at least one record, so a call asks for at
\* most MaxPrefix + MaxN + 1 pages; the model stops minting there.
MaxPage == MaxPrefix + MaxN + 1

----------------------------------------------------------------------------
(* Values *)

NoTgt == [call |-> 0, k |-> 0]
NoSt  == [kind |-> "none", call |-> 0, k |-> 0]
NoRet == [kind |-> "none", rows |-> << >>]

\* The returned value: a list of json dicts, or a DataFrame of rows.
List(rs)  == [kind |-> "list", rows |-> rs]
Frame(rs) == [kind |-> "frame", rows |-> rs]

\* An exception leaves the call without a return value.
Raised == "raised"

NaN == "NaN"

----------------------------------------------------------------------------
(* Authentication: the identity gateway and the two ticket requests *)

\* What the gateway may answer to the api-key POST: a page holding the form
\* whose action is the ticket URL, or a page without it (invalid key).
TgtAnswers == {"form", "noform"}

\* get_tgt: response.xpath('//form/@action')[0].  Without the form the
\* xpath result is the empty list and [0] raises.
get_tgt_raises(answer) == answer # "form"

get_tgt(answer, fresh) == fresh

\* What the gateway may answer to the service-ticket POST on ticket URL t:
\* a ticket, a non-success status with an error body, or an empty body.
\* serial makes the tickets the gateway issues distinct.
StAnswers(t, serial) ==
    { [status |-> 200, text |-> [kind |-> "ticket", call |-> t.call, k |-> serial]],
      [status |-> 403, text |-> [kind |-> "error",  call |-> t.call, k |-> serial]],
      [status |-> 200, text |-> [kind |-> "empty",  call |-> t.call, k |-> serial]] }

\* get_st: st = r.text; return st.  The status is not looked at.
get_st(r) == r.text

\* The requests a call has issued, in order.  url is the ticket URL a
\* service-ticket POST went to; ticket is the 'ticket' parameter of a GET.
TgtEvent(t)        == [type |-> "tgt", tgt |-> t, st |-> NoSt, page |-> 0, cui |-> ""]
StEvent(t, st)     == [type |-> "st",  tgt |-> t, st |-> st,   page |-> 0, cui |-> ""]
SearchEvent(st, p) == [type |-> "get", tgt |-> NoTgt, st |-> st, page |-> p, cui |-> ""]
CuiEvent(st, c)    == [type |-> "get", tgt |-> NoTgt, st |-> st, page |-> 0, cui |-> c]

Count(type) == Cardinality({ j \in DOMAIN log : log[j].type = type })

----------------------------------------------------------------------------
(* The search service: json.loads(r.text) of a page *)

\* items['result'] is a dict holding 'results', or it has another shape, or
\* the body is no JSON with a 'result' (json.loads or the subscript raises).
ObjectPage(uis) == [shape |-> "object", uis |-> uis]
OtherPage       == [shape |-> "other", uis |-> << >>]
MalformedPage   == [shape |-> "malformed", uis |-> << >>]

PageKinds == { OtherPage, MalformedPage, ObjectPage(<< >>),
               ObjectPage(<<"NONE">>), ObjectPage(<<"C">>),
               ObjectPage(<<"NONE", "C">>), ObjectPage(<<"C", "C">>),
               ObjectPage(<<"C", "NONE">>) }

Upstreams == UNION { [1..l -> PageKinds] : l \in 0..MaxPrefix }

\* The page the service serves as page p.
Upstream(p) == IF p <= Len(pre) THEN pre[p] ELSE tail

\* The records of page p: each has its ui and is otherwise unique.
Records(p) == [ j \in 1..Len(Upstream(p).uis) |->
                  [ui |-> Upstream(p).uis[j], name |-> <<p, j>>] ]

----------------------------------------------------------------------------
(* searchUMLS.get_df *)

\* A semantic-type descriptor is a JSON object: its fields in document
\* order, as json.loads keeps them, each a <<key, value>> pair.
Dict(k1, v1, k2, v2) == << <<k1, v1>>, <<k2, v2>> >>

HasKey(d, k) == \E j \in DOMAIN d : d[j][1] = k
Value(d, k)  == IF HasKey(d, k)
                THEN d[CHOOSE j \in DOMAIN d : d[j][1] = k][2]
                ELSE NaN

\* 'semanticTypes' in df.columns: pd.DataFrame(json_data) has a column for
\* every key some record has.
HasSemanticTypes(data) ==
    \E j \in DOMAIN data : "semanticTypes" \in DOMAIN data[j]

\* df['semanticTypes'].str[0] then pd.Series(.) of one row: the first
\* descriptor as a Series indexed by its keys; a row without the key or
\* with an empty list gives NaN, and pd.Series(NaN) is one value at index 0.
Str0Series(rec) ==
    IF "semanticTypes" \in DOMAIN rec /\ rec.semanticTypes # << >>
    THEN rec.semanticTypes[1]
    ELSE << <<"0", NaN>> >>

\* .apply(pd.Series): the columns of the expanded frame are the union of
\* the rows' keys, in order of first appearance.
RECURSIVE AddKeys(_, _)
AddKeys(cols, d) ==
    IF d = << >> THEN cols
    ELSE AddKeys(IF \E j \in DOMAIN cols : cols[j] = Head(d)[1]
                 THEN cols ELSE Append(cols, Head(d)[1]), Tail(d))

RECURSIVE ExpandedColumns(_, _)
ExpandedColumns(cols, data) ==
    IF data = << >> THEN cols
    ELSE ExpandedColumns(AddKeys(cols, Str0Series(Head(data))), Tail(data))

\* df[['semantic_type', 'TUI']] = frame assigns the frame's columns to the
\* two names by position (zip(key, value.columns)).
ProjectedColumn(cols, position) == cols[position]

\* One row after the assignment and df.drop('semanticTypes').
FlatRow(rec, cols) ==
    [ k \in (DOMAIN rec \ {"semanticTypes"}) \cup {"semantic_type", "TUI"} |->
        IF k = "semantic_type"
        THEN Value(Str0Series(rec), ProjectedColumn(cols, 1))
        ELSE IF k = "TUI"
        THEN Value(Str0Series(rec), ProjectedColumn(cols, 2))
        ELSE rec[k] ]

\* get_df: ok is FALSE when the assignment raises ("Columns must be same
\* length as key": the expanded frame has not exactly two columns).
get_df(data) ==
    IF ~HasSemanticTypes(data)
    THEN [ok |-> TRUE, rows |-> data]
    ELSE LET cols == ExpandedColumns(<< >>, data) IN
         IF Len(cols) # 2
         THEN [ok |-> FALSE, rows |-> << >>]
         ELSE [ok |-> TRUE,
               rows |-> [ j \in DOMAIN data |-> FlatRow(data[j], cols) ]]

----------------------------------------------------------------------------
(* Inputs *)

\* num_results is a number of results: 0..MaxN (int() leaves a whole number
\* as it is).
NumResults == 0..MaxN

Cuis == {"C1", "C2"}

\* What the content service may answer to a lookup: a body with 'result',
\* one with 'error', one with both, or one with neither.
AnswerKinds == {"result", "error", "both", "neither"}

\* The 'result' of the content service for a concept.
ConceptRecord(c) ==
    IF c = "C1"
    THEN [ui |-> c, semanticTypes |-> << Dict("name", "A", "ui", "T1") >>]
    ELSE [ui |-> c, semanticTypes |-> << Dict("name", "B", "ui", "T2"),
                                         Dict("name", "A", "ui", "T1") >>]

\* The records get_df is called with directly.
DfRecords ==
    { ConceptRecord("C1"), ConceptRecord("C2"),
      [ui |-> "C2", semanticTypes |-> << Dict("ui", "T2", "name", "B") >>],
      [ui |-> "C1", semanticTypes |-> << >>],
      [ui |-> "C1"],
      [ui |-> "C2", semanticTypes |->
          << << <<"name", "A">>, <<"ui", "T1">>, <<"uri", "U1">> >> >>] }

SeqsUpTo(S, l) == UNION { [1..m -> S] : m \in 0..l }

----------------------------------------------------------------------------
(* searchUMLS.search_term: the decisions of the page loop *)

Min(a, b) == IF a <= b THEN a ELSE b
Max(a, b) == IF a >= b THEN a ELSE b

\* json.loads(r.text) or items['result'] raises, or the page is an object
\* with no record and json_data["results"][0] raises.
PageRaises(items) ==
    \/ items.shape = "malformed"
    \/ items.shape = "object" /\ items.uis = << >>

\* isinstance(json_data, dict)
IsDict(items) == items.shape = "object"

\* The sentinel test left out.
IsSentinelNever(recs) == FALSE

\* json_data["results"][0]["ui"] == "NONE"
IsSentinel(recs) == recs[1].ui = "NONE"

\* results.extend(json_data['results'])
Extend(rs, recs) == rs \o recs

\* The comparison off by one.
ReachedMaxStrict(res_count, k) == res_count > k

\* if res_count >= n: break
ReachedMax(res_count, k) == res_count >= k

\* The truncation left out.
SliceNothing(rs, k) == rs

\* results[0:n]
Slice(rs, k) ==
    IF k >= 0 THEN SubSeq(rs, 1, Min(k, Len(rs)))
    ELSE SubSeq(rs, 1, Max(Len(rs) + k, 0))

\* The loop going on after a result that is not a dict.
OtherShapeGoesOn == "st"

\* else: break (the result is not a dict): on to the code after the loop.
OtherShapeExit == "ret"

\* The granting ticket taken inside the page loop.
TermLoopHeadWithTgt == "tgt"

\* while True: the loop body starts with get_st (tgt is taken before it).
TermLoopHead == "st"

\* The granting ticket taken outside the identifier loop.
CuiLoopHeadWithoutTgt == "st"

\* for cui in cui_lst: the loop body starts with get_tgt.
CuiLoopHead == "tgt"

\* The error test left out.
HasErrorNever(answer) == FALSE

\* if 'error' in items
HasError(answer) == answer \in {"error", "both"}

\* items['result'] raises when the body has no 'result'.
LookupRaises(answer) == answer \notin {"result", "both"}

----------------------------------------------------------------------------
(* The state machine *)

\* No call is running: nothing is kept but the api key (searchUMLS.__init__
\* stores apikey and an Authentication, neither of which changes).
NoCall ==
    /\ op = "none" /\ pc = "idle"
    /\ n = 0 /\ as_df = FALSE /\ pre = << >> /\ tail = OtherPage
    /\ cui_lst = << >> /\ answers = << >> /\ json_data = << >>
    /\ tgt = NoTgt /\ service_ticket = NoSt /\ page = 0
    /\ results = << >> /\ idx = 0 /\ ret = NoRet /\ log = << >>

Init == NoCall /\ calls = 0

\* search_term is called: n = int(num_results); results = []; page = 0.
SearchTermCall ==
    /\ pc = "idle" /\ calls < MaxCalls
    /\ \E k \in NumResults, df \in BOOLEAN, u \in Upstreams, t \in PageKinds :
          /\ n' = k /\ as_df' = df /\ pre' = u /\ tail' = t
    /\ op' = "term" /\ pc' = "tgt" /\ calls' = calls + 1
    /\ results' = << >> /\ page' = 0
    /\ UNCHANGED << cui_lst, answers, json_data, tgt, service_ticket, idx, ret, log >>

\* search_cui is called: results = []; the for loop starts.
SearchCuiCall ==
    /\ pc = "idle" /\ calls < MaxCalls
    /\ \E l \in 0..MaxCuis, df \in BOOLEAN :
          \E cs \in [1..l -> Cuis], as \in [1..l -> AnswerKinds] :
             /\ cui_lst' = cs /\ answers' = as /\ as_df' = df
             /\ pc' = IF cs = << >> THEN "ret" ELSE CuiLoopHead
    /\ op' = "cui" /\ calls' = calls + 1
    /\ results' = << >> /\ idx' = 1
    /\ UNCHANGED << n, pre, tail, json_data, tgt, service_ticket, page, ret, log >>

\* get_df is called by the user.
GetDfCall ==
    /\ pc = "idle" /\ calls < MaxCalls
    /\ \E d \in SeqsUpTo(DfRecords, MaxRecs) : json_data' = d
    /\ op' = "df" /\ pc' = "df" /\ calls' = calls + 1
    /\ UNCHANGED << n, as_df, pre, tail, cui_lst, answers, tgt, service_ticket,
                    page, results, idx, ret, log >>

\* tgt = self.auth.get_tgt()
GetTgt ==
    /\ pc = "tgt"
    /\ \E a \in TgtAnswers :
          IF get_tgt_raises(a)
          THEN /\ pc' = Raised
               /\ log' = Append(log, TgtEvent(NoTgt))
               /\ UNCHANGED tgt
          ELSE /\ tgt' = get_tgt(a, [call |-> calls, k |-> Count("tgt") + 1])
               /\ log' = Append(log, TgtEvent(tgt'))
               /\ pc' = "st"
    /\ UNCHANGED << op, calls, n, as_df, pre, tail, cui_lst, answers, json_data,
                    service_ticket, page, results, idx, ret >>

\* service_ticket = self.auth.get_st(tgt)
GetSt ==
    /\ pc = "st"
    /\ op = "term" => page < MaxPage
    /\ \E r \in StAnswers(tgt, Count("st") + 1) :
          /\ service_ticket' = get_st(r)
          /\ log' = Append(log, StEvent(tgt, service_ticket'))
    /\ pc' = "get"
    /\ UNCHANGED << op, calls, n, as_df, pre, tail, cui_lst, answers, json_data,
                    tgt, page, results, idx, ret >>

\* search_term, one pass of the loop after get_st: page += 1, the GET, the
\* parse and the three ways out of the loop.
SearchTermPage ==
    /\ pc = "get" /\ op = "term"
    /\ page' = page + 1
    /\ log' = Append(log, SearchEvent(service_ticket, page'))
    /\ LET items == Upstream(page')
           recs  == Records(page')
       IN  IF PageRaises(items)
           THEN pc' = Raised /\ UNCHANGED results
           ELSE IF IsDict(items)
           THEN IF IsSentinel(recs)
                THEN pc' = "ret" /\ UNCHANGED results
                ELSE /\ results' = Extend(results, recs)
                     /\ pc' = IF ReachedMax(Len(results'), n)
                              THEN "ret" ELSE TermLoopHead
           ELSE pc' = OtherShapeExit /\ UNCHANGED results
    /\ UNCHANGED << op, calls, n, as_df, pre, tail, cui_lst, answers, json_data,
                    tgt, service_ticket, idx, ret >>

\* search_term after the loop: results = results[0:n]; get_df if as_df.
SearchTermReturn ==
    /\ pc = "ret" /\ op = "term"
    /\ results' = Slice(results, n)
    /\ IF as_df
       THEN IF get_df(results').ok
            THEN pc' = "done" /\ ret' = Frame(get_df(results').rows)
            ELSE pc' = Raised /\ UNCHANGED ret
       ELSE pc' = "done" /\ ret' = List(results')
    /\ UNCHANGED << op, calls, n, as_df, pre, tail, cui_lst, answers, json_data,
                    tgt, service_ticket, page, idx, log >>

\* search_cui, one pass of the loop after get_st: the GET for cui_lst[idx],
\* the parse, skip or append, and the step to the next identifier.
SearchCuiLookup ==
    /\ pc = "get" /\ op = "cui"
    /\ log' = Append(log, CuiEvent(service_ticket, cui_lst[idx]))
    /\ IF HasError(answers[idx])
       THEN /\ UNCHANGED results
            /\ idx' = idx + 1
            /\ pc' = IF idx' > Len(cui_lst) THEN "ret" ELSE CuiLoopHead
       ELSE IF LookupRaises(answers[idx])
       THEN pc' = Raised /\ UNCHANGED << results, idx >>
       ELSE /\ results' = Append(results, ConceptRecord(cui_lst[idx]))
            /\ idx' = idx + 1
            /\ pc' = IF idx' > Len(cui_lst) THEN "ret" ELSE CuiLoopHead
    /\ UNCHANGED << op, calls, n, as_df, pre, tail, cui_lst, answers, json_data,
                    tgt, service_ticket, page, ret >>

\* search_cui after the loop: get_df if as_df.
SearchCuiReturn ==
    /\ pc = "ret" /\ op = "cui"
    /\ IF as_df
       THEN IF get_df(results).ok
            THEN pc' = "done" /\ ret' = Frame(get_df(results).rows)
            ELSE pc' = Raised /\ UNCHANGED ret
       ELSE pc' = "done" /\ ret' = List(results)
    /\ UNCHANGED << op, calls, n, as_df, pre, tail, cui_lst, answers, json_data,
                    tgt, service_ticket, page, results, idx, log >>

\* get_df called by the user returns or raises.
GetDfReturn ==
    /\ pc = "df" /\ op = "df"
    /\ IF get_df(json_data).ok
       THEN pc' = "done" /\ ret' = Frame(get_df(json_data).rows)
       ELSE pc' = Raised /\ UNCHANGED ret
    /\ UNCHANGED << op, calls, n, as_df, pre, tail, cui_lst, answers, json_data,
                    tgt, service_ticket, page, results, idx, log >>

\* The call is over (it returned or it raised): its locals are gone.
Finish ==
    /\ pc \in {"done", Raised}
    /\ op' = "none" /\ pc' = "idle"
    /\ n' = 0 /\ as_df' = FALSE /\ pre' = << >> /\ tail' = OtherPage
    /\ cui_lst' = << >> /\ answers' = << >> /\ json_data' = << >>
    /\ tgt' = NoTgt /\ service_ticket' = NoSt /\ page' = 0
    /\ results' = << >> /\ idx' = 0 /\ ret' = NoRet /\ log' = << >>
    /\ UNCHANGED calls

Next ==
    \/ SearchTermCall \/ SearchCuiCall \/ GetDfCall
    \/ GetTgt \/ GetSt
    \/ SearchTermPage \/ SearchTermReturn
    \/ SearchCuiLookup \/ SearchCuiReturn
    \/ GetDfReturn
    \/ Finish

Spec == Init /\ [][Next]_vars

\* Term searches alone, for the statement about their termination.  The
\* program is sequential and every call blocks until it is answered: a
\* step that can be taken is taken.
TermNext ==
    \/ SearchTermCall
    \/ GetTgt \/ GetSt
    \/ SearchTermPage \/ SearchTermReturn
    \/ Finish

FairSpec == Init /\ [][TermNext]_vars /\ WF_vars(TermNext)

----------------------------------------------------------------------------
(* What the upstream holds, for the statements about search_term *)

\* Page p is an object with at least one record, the first not the sentinel.
HitPage(p) ==
    /\ Upstream(p).shape = "object" /\ Upstream(p).uis # << >>
    /\ Upstream(p).uis[1] # "NONE"

\* Page p is an object whose first record is the sentinel.
SentinelPage(p) ==
    /\ Upstream(p).shape = "object" /\ Upstream(p).uis # << >>
    /\ Upstream(p).uis[1] = "NONE"

\* The result of page p is not an object.
OtherShapePage(p) == Upstream(p).shape = "other"

\* Page p makes the search raise: no JSON with a result, or an object
\* without a record.
BrokenPage(p) == ~HitPage(p) /\ ~SentinelPage(p) /\ ~OtherShapePage(p)

\* The records of pages p, p+1, ... up to the first page that is not a hit
\* page (pages past MaxPage are not counted: MaxPage hit pages hold more
\* than MaxN records).
RECURSIVE Matching(_)
Matching(p) ==
    IF p > MaxPage \/ ~HitPage(p) THEN << >>
    ELSE Records(p) \o Matching(p + 1)

\* The records of the hit pages among pages 1..p.
RECURSIVE Accumulated(_)
Accumulated(p) ==
    IF p = 0 THEN << >>
    ELSE Accumulated(p - 1) \o (IF HitPage(p) THEN Records(p) ELSE << >>)

----------------------------------------------------------------------------
(* C1 *)

----------------------------------------------------------------------------
(* C2 *)

\* C2: when the first record of the first page is the sentinel NONE, the
\* search stops after that one page and returns an empty collection,
\* whatever maxResults is.
C2_SentinelFirstPageEmpty ==
    (op = "term" /\ SentinelPage(1)) =>
        /\ page <= 1
        /\ results = << >>
        /\ page = 1 => pc \in {"ret", "done"}
        /\ pc = "done" => ret.rows = << >>

\* Such a search has returned, with maxResults above zero.
C2_Witness ==
    /\ op = "term" /\ pc = "done" /\ SentinelPage(1)
    /\ n >= 1 /\ page = 1 /\ ret.rows = << >>

----------------------------------------------------------------------------
(* C3 *)

\* The identifiers of the batch whose answer carries no error field.
Resolved == { j \in DOMAIN cui_lst : answers[j] \notin {"error", "both"} }

\* C3: an answer with an error field never aborts a concept lookup: every
\* identifier is still looked up, and the returned collection has one
\* record per identifier answered with a result.
C3_ErrorsSkipped ==
    op = "cui" =>
        /\ pc = Raised =>
              \/ log[Len(log)] = TgtEvent(NoTgt)
              \/ idx \in DOMAIN answers /\ answers[idx] = "neither"
        /\ pc \in {"ret", "done"} => Count("get") = Len(cui_lst)
        /\ pc = "done" => Len(ret.rows) = Cardinality(Resolved)

\* A batch whose first identifier failed and whose second resolved.
C3_Witness ==
    /\ op = "cui" /\ pc = "done"
    /\ Len(cui_lst) >= 2
    /\ answers[1] = "error" /\ answers[2] = "result"
    /\ Len(ret.rows) = Cardinality(Resolved)

----------------------------------------------------------------------------
(* C4 *)

\* The search and lookup requests of the running call.
Gets == { j \in DOMAIN log : log[j].type = "get" }

\* The service-ticket requests of the running call.
Mints == { j \in DOMAIN log : log[j].type = "st" }

\* C4: each service ticket is consumed by exactly one API request: every
\* search or lookup request carries a service ticket minted after the
\* previous API request, no service ticket is sent in two requests, and no
\* service ticket is minted without being used in the request that follows.
C4_OneTicketPerRequest ==
    /\ \A j \in Gets :
          /\ j - 1 \in Mints
          /\ log[j].st = log[j - 1].st
          /\ log[j].st.kind = "ticket"
    /\ \A j \in Gets, m \in Gets : j # m => log[j].st # log[m].st
    /\ \A j \in Mints :
          j < Len(log) => (j + 1 \in Gets /\ log[j + 1].st = log[j].st)

\* What does hold of the tickets whatever the gateway answers: a request
\* carries what the get_st call right before it returned, and every get_st
\* call is followed by the request that carries what it returned.
OneMintPerRequest ==
    /\ \A j \in Gets : j - 1 \in Mints /\ log[j].st = log[j - 1].st
    /\ \A j \in Mints :
          j < Len(log) => (j + 1 \in Gets /\ log[j + 1].st = log[j].st)

----------------------------------------------------------------------------
(* C5 *)

\* The granting-ticket requests of the running call.
TgtRequests == { j \in DOMAIN log : log[j].type = "tgt" }

\* C5 as stated: in term search and in concept lookup alike the granting
\* ticket is requested exactly once per call, before the first service
\* ticket is minted, and is not kept for a later call.
C5_OncePerCall ==
    op \in {"term", "cui"} =>
        /\ Cardinality(TgtRequests) <= 1
        /\ Mints # {} => (log[1].type = "tgt" /\ Cardinality(TgtRequests) = 1)

\* C5 as amended: term search requests the granting ticket exactly once
\* per call, before the first service ticket is minted, whatever the number
\* of pages; concept lookup requests one per identifier, each right before
\* that identifier's service ticket is minted; every service ticket is
\* minted against a granting ticket obtained in the same call, and none is
\* held once the call is over.
C5_OncePerTermCallOncePerIdentifier ==
    /\ op = "term" =>
          /\ Cardinality(TgtRequests) <= 1
          /\ pc # "tgt" => TgtRequests = {1}
          /\ \A j \in Mints : log[j].tgt = log[1].tgt
    /\ op = "cui" =>
          /\ \A j \in Mints : j - 1 \in TgtRequests /\ log[j].tgt = log[j - 1].tgt
          /\ pc \in {"ret", "done"} => Cardinality(TgtRequests) = Len(cui_lst)
    /\ \A j \in Mints : log[j].tgt.call = calls /\ log[j].tgt # NoTgt
    /\ pc = "idle" => tgt = NoTgt

\* A second term search that has gone through two pages on one granting
\* ticket of its own.
C5_Witness ==
    /\ op = "term" /\ pc = "done" /\ calls = 2
    /\ page >= 2 /\ Cardinality(Mints) >= 2
    /\ TgtRequests = {1} /\ log[1].tgt.call = 2

----------------------------------------------------------------------------
(* C6 *)

\* C6: get_st fails when the gateway answers the service-ticket POST with
\* a non-success status or an empty body, so no ticket value comes back
\* and no search or lookup request carries an error body or an empty
\* string as its ticket.
C6_BadTicketNeverSent ==
    /\ service_ticket.kind \in {"none", "ticket"}
    /\ \A j \in Gets : log[j].st.kind \notin {"error", "empty"}

----------------------------------------------------------------------------
(* C7 *)

\* Every record carries a non-empty semantic-type list.
AllCarrySemanticTypes(data) ==
    \A j \in DOMAIN data :
        "semanticTypes" \in DOMAIN data[j] /\ data[j].semanticTypes # << >>

\* Row j is record j with semanticTypes replaced by the name and the ui of
\* its element 0.
RowHasNameAndUi(row, rec) ==
    /\ DOMAIN row = (DOMAIN rec \ {"semanticTypes"}) \cup {"semantic_type", "TUI"}
    /\ row["semantic_type"] = Value(rec.semanticTypes[1], "name")
    /\ row["TUI"] = Value(rec.semanticTypes[1], "ui")
    /\ \A k \in DOMAIN rec \ {"semanticTypes"} : row[k] = rec[k]

\* C7: flattening records that carry a non-empty semantic-type
\* list yields, for every record, a row with semantic_type the name and
\* TUI the ui of element 0, the other fields unchanged and semanticTypes
\* gone.
C7_NameAndUiOfElementZero ==
    (op = "df" /\ pc = "done" /\ AllCarrySemanticTypes(json_data)) =>
        /\ Len(ret.rows) = Len(json_data)
        /\ \A j \in DOMAIN json_data : RowHasNameAndUi(ret.rows[j], json_data[j])

\* Element 0 of every record has the two fields name and ui and no other,
\* and element 0 of the first record lists name first.
NameThenUi(data) ==
    /\ \A j \in DOMAIN data :
          LET d == data[j].semanticTypes[1] IN
          Len(d) = 2 /\ HasKey(d, "name") /\ HasKey(d, "ui")
    /\ data # << >> => data[1].semanticTypes[1][1][1] = "name"

\* Where C7 does hold: the projection is by field position, so when
\* element 0 of every record has exactly the fields name and ui and the
\* first record lists name before ui, flattening does not fail and yields
\* the rows described.
C7_NameAndUiWhenListedInThatOrder ==
    (op = "df" /\ pc \in {"done", Raised}
        /\ AllCarrySemanticTypes(json_data) /\ NameThenUi(json_data)) =>
        /\ pc = "done"
        /\ Len(ret.rows) = Len(json_data)
        /\ \A j \in DOMAIN json_data : RowHasNameAndUi(ret.rows[j], json_data[j])

\* Two records flattened, one of them with two elements in its list and
\* one listing ui before name.
C7_Witness ==
    /\ op = "df" /\ pc = "done" /\ Len(json_data) = 2
    /\ AllCarrySemanticTypes(json_data) /\ NameThenUi(json_data)
    /\ \E j \in DOMAIN json_data : Len(json_data[j].semanticTypes) = 2
    /\ \E j \in DOMAIN json_data : json_data[j].semanticTypes[1][1][1] = "ui"
    /\ \A j \in DOMAIN json_data : RowHasNameAndUi(ret.rows[j], json_data[j])

----------------------------------------------------------------------------
(* C8 *)

\* The identifiers of the batch answered with a result, in input order.
RECURSIVE ResolvedInOrder(_)
ResolvedInOrder(j) ==
    IF j = 0 THEN << >>
    ELSE IF answers[j] \in {"error", "both"} THEN ResolvedInOrder(j - 1)
    ELSE Append(ResolvedInOrder(j - 1), cui_lst[j])

\* C8: concept lookup takes the identifiers in input order, duplicates
\* included: for the i-th it requests a granting ticket, then a service
\* ticket against that granting ticket, then the lookup of that identifier,
\* before anything for the next; the returned records are in input order.
C8_InOrderThreeRequestsEach ==
    op = "cui" =>
        /\ \A j \in DOMAIN log :
              /\ j % 3 = 1 => log[j].type = "tgt"
              /\ j % 3 = 2 => /\ log[j].type = "st"
                              /\ log[j].tgt = log[j - 1].tgt
                              /\ log[j].tgt.k = (j + 1) \div 3
              /\ j % 3 = 0 => /\ log[j].type = "get"
                              /\ log[j].st = log[j - 1].st
                              /\ j \div 3 \in DOMAIN cui_lst
                              /\ log[j].cui = cui_lst[j \div 3]
        /\ pc \in {"ret", "done"} => Len(log) = 3 * Len(cui_lst)
        /\ pc = "done" =>
              /\ Len(ret.rows) = Len(ResolvedInOrder(Len(cui_lst)))
              /\ \A j \in DOMAIN ret.rows :
                    ret.rows[j]["ui"] = ResolvedInOrder(Len(cui_lst))[j]

\* A batch naming the same identifier twice after another one, all
\* resolved.
C8_Witness ==
    /\ op = "cui" /\ pc = "done" /\ Len(cui_lst) >= 2
    /\ \E j \in DOMAIN cui_lst : j > 1 /\ cui_lst[j] # cui_lst[1]
    /\ Resolved = DOMAIN cui_lst
    /\ Len(log) = 3 * Len(cui_lst)
    /\ Len(ret.rows) = Len(cui_lst)

----------------------------------------------------------------------------
(* C9 *)

\* A stop condition holds at page p: its first record is the sentinel, or
\* the records accumulated up to and including it have reached n, or the
\* result is not an object.
StopAt(p) ==
    \/ SentinelPage(p)
    \/ HitPage(p) /\ Len(Accumulated(p)) >= n
    \/ OtherShapePage(p)

\* C9: term search requests pages 1, 2, ..., m with no gap and no repeat,
\* m being the first page at which a stop condition holds; no service
\* ticket is minted and no page requested after page m; the records of a
\* page are accumulated only if the page is an object whose first record
\* is not the sentinel.
C9_ConsecutivePagesUntilFirstStop ==
    op = "term" =>
        /\ Cardinality(Gets) = page
        /\ \A j \in Gets : log[j].page = Cardinality({ m \in Gets : m <= j })
        /\ \A p \in 1..(page - 1) : ~StopAt(p) /\ ~BrokenPage(p)
        /\ (pc \in {"st", "get"} /\ page >= 1) =>
              ~StopAt(page) /\ ~BrokenPage(page)
        /\ pc \in {"ret", "done"} =>
              /\ page >= 1 /\ StopAt(page)
              /\ Cardinality(Mints) = page
              /\ log[Len(log)].type = "get"
        /\ pc \in {"st", "get", "ret"} => results = Accumulated(page)

\* A search that stopped at its third page.
C9_Witness ==
    /\ op = "term" /\ pc = "done" /\ page = 3
    /\ StopAt(3) /\ ~StopAt(1) /\ ~StopAt(2)

----------------------------------------------------------------------------
(* C10 *)

\* The upstream serves finitely many hit pages and then a sentinel page or
\* a result that is not an object.
FinitelyManyPages ==
    \E m \in 1..MaxPage :
        /\ SentinelPage(m) \/ OtherShapePage(m)
        /\ \A p \in 1..(m - 1) : HitPage(p)

\* The upstream returns object pages without the sentinel for ever.
ObjectPagesForEver ==
    /\ tail.shape = "object"
    /\ tail.uis = << >> \/ tail.uis[1] # "NONE"

\* get_tgt raised: the gateway refused the api key.
RefusedByGateway == pc = Raised /\ log = << TgtEvent(NoTgt) >>

====
